---- MODULE Spec2Model ----
(***************************************************************************)
(* A model of moeghifar/libgo: the command dispatcher of pkg/climd (Run,   *)
(* parseArgs) and the environment binder of pkg/envy (Load, parse,         *)
(* setField, setSlice).                                                    *)
(*                                                                         *)
(* Go strings are modelled as sequences of one-character strings, so that  *)
(* strings.HasPrefix, slicing, strings.Split, strings.TrimSpace and the    *)
(* strconv parsers are computed character by character.  Indexes keep the  *)
(* zero-based values of the code; element i of a Go slice s is s[i + 1].   *)
(***************************************************************************)
EXTENDS Integers, Sequences, FiniteSets, TLC

VARIABLES
    \* ---- pkg/climd ----
    config,     \* the AppConfig handed to Run
    args,       \* Run's args parameter (replaced by os.Args[1:] when empty)
    osArgs,     \* os.Args[1:]
    cpc,        \* position inside Run: "start", "parse", "done", "idle"
    active,     \* the handler selected by Run: <<ci>> or <<ci, si>>, <<>> if none
    rest,       \* parseArgs' args parameter
    flags,      \* parseArgs' flags parameter
    i,          \* parseArgs' loop index
    cmdArgs,    \* parseArgs' positional result
    cmdFlags,   \* parseArgs' flag map
    classes,    \* history: how parseArgs classified each token it scanned
    invoked,    \* the handler calls made so far
    out,        \* what Run printed
    result,     \* Run's return value
    \* ---- pkg/envy ----
    schema,     \* the type of Load's target: its fields and their tags
    env,        \* the process environment os.Getenv reads, .env file included
    epc,        \* position inside Load: "load", "check", "parse", "return", "done", "idle"
    frames,     \* the active calls of parse, outermost first: struct and loop index
    target,     \* the value of every non-struct field of the target
    err,        \* the error being returned
    warnings,   \* the WARNING lines printed
    lookups,    \* history: the keys passed to os.Getenv, in order
    failedAt    \* history: the field whose binding failed

cliVars == <<config, args, osArgs, cpc, active, rest, flags, i, cmdArgs,
             cmdFlags, classes, invoked, out, result>>

envVars == <<schema, env, epc, frames, target, err, warnings, lookups, failedAt>>

vars == <<cliVars, envVars>>

----------------------------------------------------------------------------
(* Strings *)

\* strings.HasPrefix
HasPrefix(s, p) == Len(s) >= Len(p) /\ SubSeq(s, 1, Len(p)) = p

\* the Go slice expression s[n:]
SliceFrom(s, n) == SubSeq(s, n + 1, Len(s))

\* m[k] = v on a Go map
MapPut(m, k, v) == [x \in (DOMAIN m) \cup {k} |-> IF x = k THEN v ELSE m[x]]

EmptyMap == <<>>

\* all sequences over S of length at most n
RECURSIVE SeqsUpTo(_, _)
SeqsUpTo(S, n) ==
    IF n = 0 THEN {<<>>}
    ELSE LET shorter == SeqsUpTo(S, n - 1)
         IN  shorter \cup {Append(s, x) : s \in {t \in shorter : Len(t) = n - 1}, x \in S}

----------------------------------------------------------------------------
(* pkg/climd: the schemas and argument vectors explored *)

MaxArgs == 4

Dash == <<"-">>
DashDash == <<"-", "-">>

T_s       == <<"s">>
T_d       == <<"d">>
T_m       == <<"m">>
T_ht      == <<"-", "-", "h", "t">>
T_h       == <<"-", "h">>
T_o       == <<"-", "o">>
T_htEqM   == <<"-", "-", "h", "t", "=", "m">>
T_dd      == <<"-", "-">>
T_v       == <<"-", "v">>
T_dash    == <<"-">>

Tokens == {T_s, T_d, T_m, T_ht, T_h, T_o, T_htEqM, T_dd, T_v, T_dash}

HelpTokens == {<<"-", "-", "h", "e", "l", "p">>, <<"-", "h">>}
VersionTokens == {<<"-", "-", "v", "e", "r", "s", "i", "o", "n">>, <<"-", "v">>}

Flag(name, short, required) == [Name |-> name, Short |-> short, Required |-> required]
SubCommand(name, fl, run) == [Name |-> name, Flags |-> fl, Run |-> run]
Command(name, fl, subs, run) ==
    [Name |-> name, Flags |-> fl, SubCommands |-> subs, Run |-> run]

F_ht(required) == Flag(<<"h", "t">>, <<"h">>, required)
F_o(required)  == Flag(<<"o">>, <<>>, required)

\* serve-like command with flags, db-like command with subcommands and no Run
\* of its own (as in the README), and a later command shadowed by the first.
AppA ==
    [Commands |-> <<
        Command(T_s, <<F_o(FALSE), F_ht(TRUE)>>, <<>>, TRUE),
        Command(T_d, <<>>,
                <<SubCommand(T_m, <<>>, TRUE),
                  SubCommand(T_s, <<F_o(TRUE)>>, TRUE),
                  SubCommand(T_m, <<F_ht(FALSE)>>, TRUE)>>,
                FALSE),
        Command(T_s, <<>>, <<>>, TRUE) >>]

\* a command with subcommands that also has flags and a handler of its own
AppB ==
    [Commands |-> <<
        Command(T_d, <<F_ht(FALSE), F_o(FALSE)>>,
                <<SubCommand(T_s, <<F_ht(TRUE), F_o(TRUE)>>, TRUE),
                  SubCommand(T_d, <<F_ht(FALSE)>>, TRUE)>>,
                TRUE),
        Command(T_m, <<F_o(TRUE)>>, <<>>, TRUE) >>]

AppEmpty == [Commands |-> <<>>]

Configs == {AppA, AppB, AppEmpty}

Argvs == SeqsUpTo(Tokens, MaxArgs)

\* what a handler may return
HandlerReturns == {"nil", "handler error"}

----------------------------------------------------------------------------
(* pkg/climd: values *)

NoResult == [kind |-> "none", name |-> <<>>, short |-> <<>>]
Nil == [kind |-> "nil", name |-> <<>>, short |-> <<>>]
ErrUnknownCommand(n) == [kind |-> "unknown command", name |-> n, short |-> <<>>]
ErrUnknownSubCommand(n) == [kind |-> "unknown subcommand", name |-> n, short |-> <<>>]
ErrRequiredFlag(n, s) == [kind |-> "required flag not provided", name |-> n, short |-> s]
\* mutant: the handler's error is swallowed
HandlerResult_Swallowed(r) == [kind |-> "nil", name |-> <<>>, short |-> <<>>]
\* what Run returns when the handler returned r
HandlerResult(r) == [kind |-> r, name |-> <<>>, short |-> <<>>]
Panic == [kind |-> "panic", name |-> <<>>, short |-> <<>>]

----------------------------------------------------------------------------
(* pkg/climd: parseArgs *)

\* the loop over flags that sets isKnownFlag (the long and the short branch
\* test the same two fields, in opposite order)
isKnownFlag(fl, flagName) ==
    \E k \in 1..Len(fl) : fl[k].Name = flagName \/ fl[k].Short = flagName

\* mutant: the following token is taken as the value whatever it begins with
NextIsValue_AnyToken(a, k) == k + 1 < Len(a)

\* "Check if next argument is a value for this flag"
NextIsValue(a, k) ==
    /\ k + 1 < Len(a)
    /\ ~HasPrefix(a[k + 2], DashDash)
    /\ ~HasPrefix(a[k + 2], Dash)

\* mutant: a flag-shaped token of unknown name is dropped
FlagStep_DropUnknown(flagName) ==
    IF isKnownFlag(flags, flagName)
    THEN IF NextIsValue(rest, i)
         THEN /\ cmdFlags' = MapPut(cmdFlags, flagName, rest[i + 2])
              /\ i' = i + 2
              /\ cmdArgs' = cmdArgs
              /\ classes' = classes \o <<"flag name", "flag value">>
         ELSE /\ cmdFlags' = MapPut(cmdFlags, flagName, <<>>)
              /\ i' = i + 1
              /\ cmdArgs' = cmdArgs
              /\ classes' = Append(classes, "flag name")
    ELSE /\ cmdArgs' = cmdArgs
         /\ i' = i + 1
         /\ cmdFlags' = cmdFlags
         /\ classes' = Append(classes, "positional")

\* the body shared by the long and the short branch once flagName is cut
FlagStep(flagName) ==
    IF isKnownFlag(flags, flagName)
    THEN IF NextIsValue(rest, i)
         THEN /\ cmdFlags' = MapPut(cmdFlags, flagName, rest[i + 2])
              /\ i' = i + 2
              /\ cmdArgs' = cmdArgs
              /\ classes' = classes \o <<"flag name", "flag value">>
         ELSE /\ cmdFlags' = MapPut(cmdFlags, flagName, <<>>)
              /\ i' = i + 1
              /\ cmdArgs' = cmdArgs
              /\ classes' = Append(classes, "flag name")
    ELSE /\ cmdArgs' = Append(cmdArgs, rest[i + 1])
         /\ i' = i + 1
         /\ cmdFlags' = cmdFlags
         /\ classes' = Append(classes, "positional")

IsLongShaped(arg) == HasPrefix(arg, DashDash)
IsShortShaped(arg) == ~HasPrefix(arg, DashDash) /\ HasPrefix(arg, Dash) /\ Len(arg) > 1

ParseLong ==
    /\ cpc = "parse"
    /\ i < Len(rest)
    /\ IsLongShaped(rest[i + 1])
    /\ FlagStep(SliceFrom(rest[i + 1], 2))
    /\ UNCHANGED <<envVars, config, args, osArgs, cpc, active, rest, flags, invoked, out, result>>

ParseShort ==
    /\ cpc = "parse"
    /\ i < Len(rest)
    /\ IsShortShaped(rest[i + 1])
    /\ FlagStep(SliceFrom(rest[i + 1], 1))
    /\ UNCHANGED <<envVars, config, args, osArgs, cpc, active, rest, flags, invoked, out, result>>

ParsePositional ==
    /\ cpc = "parse"
    /\ i < Len(rest)
    /\ ~IsLongShaped(rest[i + 1])
    /\ ~IsShortShaped(rest[i + 1])
    /\ cmdArgs' = Append(cmdArgs, rest[i + 1])
    /\ i' = i + 1
    /\ classes' = Append(classes, "positional")
    /\ UNCHANGED <<envVars, config, args, osArgs, cpc, active, rest, flags, cmdFlags,
                   invoked, out, result>>

----------------------------------------------------------------------------
(* pkg/climd: Run *)

\* "if len(args) == 0 { args = os.Args[1:] }"
EffectiveArgs == IF Len(args) = 0 THEN osArgs ELSE args

\* mutant: a later declaration of the same name wins
FirstNamed_Last(seq, name) ==
    IF \E k \in 1..Len(seq) : seq[k].Name = name
    THEN CHOOSE k \in 1..Len(seq) :
            /\ seq[k].Name = name
            /\ \A j \in (k + 1)..Len(seq) : seq[j].Name # name
    ELSE 0

\* index of the first element of seq named name, 0 if there is none
FirstNamed(seq, name) ==
    IF \E k \in 1..Len(seq) : seq[k].Name = name
    THEN CHOOSE k \in 1..Len(seq) :
            /\ seq[k].Name = name
            /\ \A j \in 1..(k - 1) : seq[j].Name # name
    ELSE 0

\* "if len(cmd.SubCommands) > 0 && len(args) > 1"
TakesSubCommand(cmd, a) == Len(cmd.SubCommands) > 0 /\ Len(a) > 1

\* mutant: only the long name satisfies a required flag
CheckRequired_LongOnly(fl, m) ==
    LET missing(f) == f.Required /\ f.Name \notin DOMAIN m
    IN  IF \E k \in 1..Len(fl) : missing(fl[k])
        THEN LET k == CHOOSE k \in 1..Len(fl) :
                        missing(fl[k]) /\ \A j \in 1..(k - 1) : ~missing(fl[j])
             IN  ErrRequiredFlag(fl[k].Name, fl[k].Short)
        ELSE Nil

\* the "Check required flags" loop: the error it returns, Nil if it returns none
CheckRequired(fl, m) ==
    LET missing(f) ==
            /\ f.Required
            /\ f.Name \notin DOMAIN m
            /\ IF f.Short # <<>> THEN f.Short \notin DOMAIN m ELSE TRUE
    IN  IF \E k \in 1..Len(fl) : missing(fl[k])
        THEN LET k == CHOOSE k \in 1..Len(fl) :
                        missing(fl[k]) /\ \A j \in 1..(k - 1) : ~missing(fl[j])
             IN  ErrRequiredFlag(fl[k].Name, fl[k].Short)
        ELSE Nil

\* the descriptor Run selected
ActiveEntry ==
    IF Len(active) = 1 THEN config.Commands[active[1]]
    ELSE config.Commands[active[1]].SubCommands[active[2]]

ParseIdle == /\ rest' = rest /\ flags' = flags /\ i' = i
             /\ cmdArgs' = cmdArgs /\ cmdFlags' = cmdFlags
             /\ classes' = classes

Return(r, printed) ==
    /\ cpc' = "done"
    /\ result' = r
    /\ out' = out \o printed

\* mutant: the unknown command is printed but no error is returned
ReturnUnknownCommand_Nil(n) == Return(Nil, <<"unknown command", "help">>)

\* "Command not found"
ReturnUnknownCommand(n) ==
    Return(ErrUnknownCommand(n), <<"unknown command", "help">>)

\* "Handle global flags"
RunGlobalFlag ==
    /\ cpc = "start"
    /\ Len(EffectiveArgs) > 0
    /\ \/ /\ EffectiveArgs[1] \in HelpTokens
          /\ Return(Nil, <<"help">>)
       \/ /\ EffectiveArgs[1] \in VersionTokens
          /\ Return(Nil, <<"version">>)
    /\ args' = EffectiveArgs
    /\ ParseIdle
    /\ UNCHANGED <<envVars, config, osArgs, active, invoked>>

NotGlobalFlag ==
    Len(EffectiveArgs) > 0 => EffectiveArgs[1] \notin HelpTokens \cup VersionTokens

\* "If no commands defined, print help"
RunNoCommands ==
    /\ cpc = "start"
    /\ NotGlobalFlag
    /\ Len(config.Commands) = 0
    /\ Return(Nil, <<"help">>)
    /\ args' = EffectiveArgs
    /\ ParseIdle
    /\ UNCHANGED <<envVars, config, osArgs, active, invoked>>

RunNoArgs ==
    /\ cpc = "start"
    /\ Len(config.Commands) # 0
    /\ Len(EffectiveArgs) = 0
    /\ Return(Nil, <<"help">>)
    /\ args' = EffectiveArgs
    /\ ParseIdle
    /\ UNCHANGED <<envVars, config, osArgs, active, invoked>>

\* "Command not found"
RunUnknownCommand ==
    /\ cpc = "start"
    /\ NotGlobalFlag
    /\ Len(config.Commands) # 0
    /\ Len(EffectiveArgs) # 0
    /\ FirstNamed(config.Commands, EffectiveArgs[1]) = 0
    /\ ReturnUnknownCommand(EffectiveArgs[1])
    /\ args' = EffectiveArgs
    /\ ParseIdle
    /\ UNCHANGED <<envVars, config, osArgs, active, invoked>>

\* "Subcommand not found"
RunUnknownSubCommand ==
    /\ cpc = "start"
    /\ NotGlobalFlag
    /\ Len(config.Commands) # 0
    /\ Len(EffectiveArgs) # 0
    /\ LET a == EffectiveArgs
           ci == FirstNamed(config.Commands, a[1])
       IN  /\ ci # 0
           /\ TakesSubCommand(config.Commands[ci], a)
           /\ FirstNamed(config.Commands[ci].SubCommands, a[2]) = 0
           /\ Return(ErrUnknownSubCommand(a[2]), <<"unknown subcommand", "command help">>)
    /\ args' = EffectiveArgs
    /\ ParseIdle
    /\ UNCHANGED <<envVars, config, osArgs, active, invoked>>

\* the call parseArgs(args[2:], subCmd.Flags)
RunSubCommand ==
    /\ cpc = "start"
    /\ NotGlobalFlag
    /\ Len(config.Commands) # 0
    /\ Len(EffectiveArgs) # 0
    /\ LET a == EffectiveArgs
           ci == FirstNamed(config.Commands, a[1])
       IN  /\ ci # 0
           /\ TakesSubCommand(config.Commands[ci], a)
           /\ LET si == FirstNamed(config.Commands[ci].SubCommands, a[2])
              IN  /\ si # 0
                  /\ active' = <<ci, si>>
                  /\ rest' = SliceFrom(a, 2)
                  /\ flags' = config.Commands[ci].SubCommands[si].Flags
    /\ args' = EffectiveArgs
    /\ cpc' = "parse"
    /\ i' = 0
    /\ cmdArgs' = <<>>
    /\ cmdFlags' = EmptyMap
    /\ classes' = <<>>
    /\ UNCHANGED <<envVars, config, osArgs, invoked, out, result>>

\* the call parseArgs(args[1:], cmd.Flags)
RunCommand ==
    /\ cpc = "start"
    /\ NotGlobalFlag
    /\ Len(config.Commands) # 0
    /\ Len(EffectiveArgs) # 0
    /\ LET a == EffectiveArgs
           ci == FirstNamed(config.Commands, a[1])
       IN  /\ ci # 0
           /\ ~TakesSubCommand(config.Commands[ci], a)
           /\ active' = <<ci>>
           /\ rest' = SliceFrom(a, 1)
           /\ flags' = config.Commands[ci].Flags
    /\ args' = EffectiveArgs
    /\ cpc' = "parse"
    /\ i' = 0
    /\ cmdArgs' = <<>>
    /\ cmdFlags' = EmptyMap
    /\ classes' = <<>>
    /\ UNCHANGED <<envVars, config, osArgs, invoked, out, result>>

\* parseArgs has returned and a required flag is missing
RunMissingRequired ==
    /\ cpc = "parse"
    /\ ~(i < Len(rest))
    /\ CheckRequired(flags, cmdFlags) # Nil
    /\ Return(CheckRequired(flags, cmdFlags), <<>>)
    /\ ParseIdle
    /\ UNCHANGED <<envVars, config, args, osArgs, active, invoked>>

\* "return cmd.Run(ctx, cmdArgs, cmdFlags)" / "return subCmd.Run(...)"
RunHandler ==
    /\ cpc = "parse"
    /\ ~(i < Len(rest))
    /\ CheckRequired(flags, cmdFlags) = Nil
    /\ ActiveEntry.Run
    /\ \E r \in HandlerReturns :
          /\ invoked' = Append(invoked, [handler |-> active, args |-> cmdArgs,
                                         flags |-> cmdFlags, ret |-> r])
          /\ Return(HandlerResult(r), <<>>)
    /\ ParseIdle
    /\ UNCHANGED <<envVars, config, args, osArgs, active>>

\* the same call when the Run field was left nil: a nil function call panics
RunNilHandler ==
    /\ cpc = "parse"
    /\ ~(i < Len(rest))
    /\ CheckRequired(flags, cmdFlags) = Nil
    /\ ~ActiveEntry.Run
    /\ Return(Panic, <<>>)
    /\ ParseIdle
    /\ UNCHANGED <<envVars, config, args, osArgs, active, invoked>>

----------------------------------------------------------------------------
(* pkg/envy not running *)

NoTarget == [PtrToStruct |-> FALSE, Fields |-> <<>>]

NoErr == [kind |-> "nil", path |-> <<>>, key |-> "", num |-> <<>>, cause |-> ""]

EnvIdle ==
    /\ schema = NoTarget
    /\ env = <<>>
    /\ epc = "idle"
    /\ frames = <<>>
    /\ target = <<>>
    /\ err = NoErr
    /\ warnings = <<>>
    /\ lookups = <<>>
    /\ failedAt = <<>>

----------------------------------------------------------------------------
(* pkg/climd: specification *)

InitCli ==
    /\ config \in Configs
    /\ args \in Argvs
    /\ osArgs \in (IF args = <<>> THEN Argvs ELSE {<<>>})
    /\ cpc = "start"
    /\ active = <<>>
    /\ rest = <<>>
    /\ flags = <<>>
    /\ i = 0
    /\ cmdArgs = <<>>
    /\ cmdFlags = EmptyMap
    /\ classes = <<>>
    /\ invoked = <<>>
    /\ out = <<>>
    /\ result = NoResult
    /\ EnvIdle

NextCli ==
    \/ RunGlobalFlag
    \/ RunNoCommands
    \/ RunNoArgs
    \/ RunUnknownCommand
    \/ RunUnknownSubCommand
    \/ RunSubCommand
    \/ RunCommand
    \/ ParseLong
    \/ ParseShort
    \/ ParsePositional
    \/ RunMissingRequired
    \/ RunHandler
    \/ RunNilHandler

SpecCli == InitCli /\ [][NextCli]_vars

----------------------------------------------------------------------------
(* pkg/envy: strconv, strings *)

Digits == {"0", "1", "2", "3", "4", "5", "6", "7", "8", "9"}

DigitValue(c) ==
    CASE c = "0" -> 0 [] c = "1" -> 1 [] c = "2" -> 2 [] c = "3" -> 3
      [] c = "4" -> 4 [] c = "5" -> 5 [] c = "6" -> 6 [] c = "7" -> 7
      [] c = "8" -> 8 [] c = "9" -> 9

AllDigits(s) == s # <<>> /\ \A k \in 1..Len(s) : s[k] \in Digits

RECURSIVE DecValue(_)
DecValue(s) ==
    IF s = <<>> THEN 0
    ELSE DecValue(SubSeq(s, 1, Len(s) - 1)) * 10 + DigitValue(s[Len(s)])

Parsed(v) == [ok |-> TRUE, val |-> v, cause |-> ""]
SyntaxError == [ok |-> FALSE, val |-> 0, cause |-> "invalid syntax"]

\* strconv.ParseUint(s, 10, 64): digits only, no sign.  The strings explored
\* are far shorter than 20 digits, so "value out of range" does not arise.
ParseUint(s) == IF AllDigits(s) THEN Parsed(DecValue(s)) ELSE SyntaxError

\* strconv.ParseInt(s, 10, 64): an optional sign, then digits
ParseInt(s) ==
    IF s = <<>> THEN SyntaxError
    ELSE IF s[1] \in {"+", "-"}
         THEN LET u == ParseUint(Tail(s))
              IN  IF ~u.ok THEN SyntaxError
                  ELSE Parsed(IF s[1] = "-" THEN 0 - u.val ELSE u.val)
         ELSE ParseUint(s)

\* strconv.ParseBool
ParseBool(s) ==
    IF s \in {<<"1">>, <<"t">>, <<"T">>, <<"T", "R", "U", "E">>,
              <<"t", "r", "u", "e">>, <<"T", "r", "u", "e">>}
    THEN Parsed(TRUE)
    ELSE IF s \in {<<"0">>, <<"f">>, <<"F">>, <<"F", "A", "L", "S", "E">>,
                   <<"f", "a", "l", "s", "e">>, <<"F", "a", "l", "s", "e">>}
         THEN Parsed(FALSE)
         ELSE SyntaxError

\* a decimal m / 10^e with no trailing zero in the fraction
RECURSIVE Decimal(_, _, _)
Decimal(neg, m, e) ==
    IF e > 0 /\ m % 10 = 0 THEN Decimal(neg, m \div 10, e - 1)
    ELSE [neg |-> neg /\ m # 0, m |-> m, e |-> e]

\* strconv.ParseFloat(s, 64) on decimal literals: an optional sign, digits
\* with at most one point, at least one digit.  Exponents, hexadecimal
\* literals, "inf" and "nan" need characters outside the strings explored.
ParseFloat(s) ==
    LET signed == s # <<>> /\ s[1] \in {"+", "-"}
        body == IF signed THEN Tail(s) ELSE s
        points == {k \in 1..Len(body) : body[k] = "."}
        digits == SelectSeq(body, LAMBDA c : c # ".")
    IN  IF Cardinality(points) <= 1 /\ AllDigits(digits)
        THEN Parsed(Decimal(signed /\ s[1] = "-", DecValue(digits),
                            IF points = {} THEN 0
                            ELSE Len(body) - (CHOOSE k \in points : TRUE)))
        ELSE SyntaxError

\* strings.Split(s, sep) for a one-character sep
RECURSIVE Split(_, _)
Split(s, sep) ==
    IF \A k \in 1..Len(s) : s[k] # sep THEN <<s>>
    ELSE LET k == CHOOSE k \in 1..Len(s) :
                    s[k] = sep /\ \A j \in 1..(k - 1) : s[j] # sep
         IN  <<SubSeq(s, 1, k - 1)>> \o Split(SubSeq(s, k + 1, Len(s)), sep)

IsSpace(c) == c \in {" ", "\t", "\n", "\r"}

\* mutant: only leading white space is trimmed
RECURSIVE TrimSpace_LeftOnly(_)
TrimSpace_LeftOnly(s) ==
    IF s # <<>> /\ IsSpace(s[1]) THEN TrimSpace_LeftOnly(Tail(s)) ELSE s

\* strings.TrimSpace
RECURSIVE TrimSpace(_)
TrimSpace(s) ==
    IF s # <<>> /\ IsSpace(s[1]) THEN TrimSpace(Tail(s))
    ELSE IF s # <<>> /\ IsSpace(s[Len(s)]) THEN TrimSpace(SubSeq(s, 1, Len(s) - 1))
    ELSE s

----------------------------------------------------------------------------
(* pkg/envy: reflect *)

SignedKinds == {"int", "int8", "int16", "int64"}
UnsignedKinds == {"uint", "uint8", "uint16", "uint64"}
FloatKinds == {"float64"}

\* the width in bits of an integer kind
Bits(kind) ==
    CASE kind \in {"int8", "uint8"} -> 8
      [] kind \in {"int16", "uint16"} -> 16
      [] OTHER -> 64

\* reflect.Value.SetInt: the int64 is converted to the field's type, which
\* keeps its low bits.  A parsed value always fits 64 bits.
SetInt(kind, v) ==
    IF Bits(kind) = 64 THEN v
    ELSE ((v + 2 ^ (Bits(kind) - 1)) % (2 ^ Bits(kind))) - 2 ^ (Bits(kind) - 1)

\* reflect.Value.SetUint
SetUint(kind, v) == IF Bits(kind) = 64 THEN v ELSE v % (2 ^ Bits(kind))

NilSlice == [nil |-> TRUE, elems |-> <<>>]
Slice(elems) == [nil |-> FALSE, elems |-> elems]

\* the zero value of a field of the given kind
Zero(kind) ==
    CASE kind = "string" -> <<>>
      [] kind \in SignedKinds \cup UnsignedKinds -> 0
      [] kind = "bool" -> FALSE
      [] kind \in FloatKinds -> Decimal(FALSE, 0, 0)
      [] OTHER -> NilSlice

----------------------------------------------------------------------------
(* pkg/envy: errors *)

NilErr == NoErr
ErrEnvFile ==
    [kind |-> "error loading .env file", path |-> <<>>, key |-> "", num |-> <<>>,
     cause |-> ""]
ErrNotStructPtr ==
    [kind |-> "target must be a pointer to a struct", path |-> <<>>, key |-> "",
     num |-> <<>>, cause |-> ""]
\* "var `%s` is required"
ErrRequired(key) ==
    [kind |-> "required", path |-> <<>>, key |-> key, num |-> <<>>, cause |-> ""]
\* "invalid int for field %s: %w", the wrapped *strconv.NumError naming the
\* input and the cause
ErrInvalid(what, fieldName, num, cause) ==
    [kind |-> what, path |-> <<fieldName>>, key |-> "", num |-> num, cause |-> cause]
\* "unsupported type: %v for field %s"
ErrUnsupported(what, kind, fieldName) ==
    [kind |-> what, path |-> <<fieldName>>, key |-> "", num |-> <<>>, cause |-> kind]

Ok(v) == [ok |-> TRUE, val |-> v, err |-> NilErr]
Fail(e) == [ok |-> FALSE, val |-> 0, err |-> e]

TypeMismatchKinds ==
    {"invalid int", "invalid uint", "invalid bool", "invalid float",
     "invalid int in slice", "invalid float in slice"}

----------------------------------------------------------------------------
(* pkg/envy: setSlice, setField *)

\* the element setSlice appends for one non-empty part
SliceElem(elem, part, fieldName) ==
    CASE elem = "string" -> Ok(part)
      [] elem \in SignedKinds ->
            LET r == ParseInt(part)
            IN  IF r.ok THEN Ok(SetInt(elem, r.val))
                ELSE Fail(ErrInvalid("invalid int in slice", fieldName, part, r.cause))
      [] elem \in FloatKinds ->
            LET r == ParseFloat(part)
            IN  IF r.ok THEN Ok(r.val)
                ELSE Fail(ErrInvalid("invalid float in slice", fieldName, part, r.cause))
      [] OTHER -> Fail(ErrUnsupported("unsupported slice element type", elem, fieldName))

\* mutant: empty parts are not skipped
RECURSIVE AppendParts_KeepEmpty(_, _, _, _)
AppendParts_KeepEmpty(elem, parts, acc, fieldName) ==
    IF parts = <<>> THEN Ok(Slice(acc))
    ELSE LET e == SliceElem(elem, Head(parts), fieldName)
         IN  IF e.ok
             THEN AppendParts_KeepEmpty(elem, Tail(parts), Append(acc, e.val), fieldName)
             ELSE e

\* the loop "for _, part := range parts"
RECURSIVE AppendParts(_, _, _, _)
AppendParts(elem, parts, acc, fieldName) ==
    IF parts = <<>> THEN Ok(Slice(acc))
    ELSE IF Head(parts) = <<>> THEN AppendParts(elem, Tail(parts), acc, fieldName)
    ELSE LET e == SliceElem(elem, Head(parts), fieldName)
         IN  IF e.ok THEN AppendParts(elem, Tail(parts), Append(acc, e.val), fieldName)
             ELSE e

setSlice(elem, value, fieldName) ==
    LET split == Split(value, ",")
        parts == [k \in 1..Len(split) |-> TrimSpace(split[k])]
    IN  AppendParts(elem, parts, <<>>, fieldName)

\* setField: the value stored in a field of kind f.Kind for the non-empty
\* string value, or the error returned
setField(f, value) ==
    CASE f.Kind = "string" -> Ok(value)
      [] f.Kind \in SignedKinds ->
            LET r == ParseInt(value)
            IN  IF r.ok THEN Ok(SetInt(f.Kind, r.val))
                ELSE Fail(ErrInvalid("invalid int", f.Name, value, r.cause))
      [] f.Kind \in UnsignedKinds ->
            LET r == ParseUint(value)
            IN  IF r.ok THEN Ok(SetUint(f.Kind, r.val))
                ELSE Fail(ErrInvalid("invalid uint", f.Name, value, r.cause))
      [] f.Kind = "bool" ->
            LET r == ParseBool(value)
            IN  IF r.ok THEN Ok(r.val)
                ELSE Fail(ErrInvalid("invalid bool", f.Name, value, r.cause))
      [] f.Kind \in FloatKinds ->
            LET r == ParseFloat(value)
            IN  IF r.ok THEN Ok(r.val)
                ELSE Fail(ErrInvalid("invalid float", f.Name, value, r.cause))
      [] f.Kind = "slice" -> setSlice(f.Elem, value, f.Name)
      [] OTHER -> Fail(ErrUnsupported("unsupported type", f.Kind, f.Name))

----------------------------------------------------------------------------
(* pkg/envy: the targets and environments explored *)

MaxValLen == 3

ValueChars == {"1", "2", "t", ",", " ", "."}

\* strings of the tests and of the documentation
ExampleValues ==
    {<<"a", ",", " ", "b", " ", ",", "c">>,
     <<"1", ",", "2", ",", "4">>,
     <<"1", ",", "x", ",", "4">>,
     <<"3", "0", "0">>,
     <<"-", "1">>}

\* an environment variable: unset, or set to a string
Unset == [set |-> FALSE, val |-> <<>>]
SetTo(v) == [set |-> TRUE, val |-> v]

K1Choices == {Unset} \cup {SetTo(v) : v \in SeqsUpTo(ValueChars, MaxValLen) \cup ExampleValues}
K2Choices == {Unset, SetTo(<<>>), SetTo(<<"1">>), SetTo(<<"t">>)}

EnvOf(c1, c2) ==
    [k \in (IF c1.set THEN {"K1"} ELSE {}) \cup (IF c2.set THEN {"K2"} ELSE {}) |->
        IF k = "K1" THEN c1.val ELSE c2.val]

Envs == {EnvOf(c1, c2) : c1 \in K1Choices, c2 \in K2Choices}

\* a struct field with its env, default and required tags
Field(name, kind, elem, key, default, required) ==
    [Name |-> name, Kind |-> kind, Elem |-> elem, Env |-> key,
     Default |-> default, Required |-> required, Fields |-> <<>>]

\* a field that is itself a struct
Struct(name, fields) ==
    [Name |-> name, Kind |-> "struct", Elem |-> "", Env |-> "",
     Default |-> <<>>, Required |-> "", Fields |-> fields]

Target(fields) == [PtrToStruct |-> TRUE, Fields |-> fields]

ScalarKinds == {"string", "int", "int8", "uint", "uint8", "bool", "float64"}
ElemKinds == {"string", "int", "int8", "float64", "bool"}

DefaultFor(kind) ==
    CASE kind = "bool" -> <<"f">>
      [] kind = "float64" -> <<"2", ".", "5">>
      [] OTHER -> <<"2", "1">>

\* one field of each scalar kind with a default, then a required field
ScalarTarget(kind) ==
    Target(<<Field("A", kind, "", "K1", DefaultFor(kind), ""),
             Field("B", "string", "", "K2", <<>>, "true")>>)

\* one slice field with a default
SliceTarget(elem) ==
    Target(<<Field("L", "slice", elem, "K1", <<"2", ",", "1">>, "")>>)

\* every kind bound to the same variable
AllKindsTarget ==
    Target(<<Field("S", "string", "", "K1", <<"2", "1">>, ""),
             Field("I", "int", "", "K1", <<"2", "1">>, ""),
             Field("U", "uint8", "", "K1", <<"2", "1">>, ""),
             Field("B", "bool", "", "K1", <<"f">>, ""),
             Field("F", "float64", "", "K1", <<"2", ".", "5">>, ""),
             Field("L", "slice", "int", "K1", <<"2", ",", "1">>, "")>>)

\* required fields that carry a default (MustExist of the example program),
\* one of them a default that does not parse, and a field of unsupported kind
RequiredDefaultTarget ==
    Target(<<Field("MustExist", "int", "", "K1", <<"9", "9", "9">>, "true"),
             Field("N", "uint8", "", "K2", <<"t">>, "true"),
             Field("M", "map", "", "K1", <<>>, "")>>)

\* nested structs with fields of the same name, a field without env tag
NestedTarget ==
    Target(<<Struct("App", <<Field("Port", "int", "", "K1", <<>>, "")>>),
             Struct("Database",
                    <<Field("Port", "int", "", "K2", <<>>, "true"),
                      Struct("Pool", <<Field("Port", "uint8", "", "K1", <<"2">>, "")>>)>>),
             Field("Skipped", "string", "", "", <<"2">>, "true"),
             Field("Hosts", "slice", "string", "K1", <<>>, "")>>)

Targets ==
    {ScalarTarget(k) : k \in ScalarKinds} \cup {SliceTarget(e) : e \in ElemKinds}
        \cup {AllKindsTarget, RequiredDefaultTarget, NestedTarget, NoTarget}

----------------------------------------------------------------------------
(* pkg/envy: Load, parse *)

\* the field reached by a path of field positions
RECURSIVE FieldAt(_, _)
FieldAt(fields, path) ==
    IF Len(path) = 1 THEN fields[path[1]]
    ELSE FieldAt(fields[path[1]].Fields, Tail(path))

\* the fields of the struct at a path, the target itself at the empty path
StructFields(path) ==
    IF path = <<>> THEN schema.Fields ELSE FieldAt(schema.Fields, path).Fields

\* the paths of the non-struct fields
RECURSIVE LeafPaths(_, _)
LeafPaths(fields, prefix) ==
    UNION {IF fields[k].Kind = "struct"
           THEN LeafPaths(fields[k].Fields, Append(prefix, k))
           ELSE {Append(prefix, k)} : k \in 1..Len(fields)}

\* os.Getenv
Getenv(key) == IF key \in DOMAIN env THEN env[key] ELSE <<>>

\* mutant: a default, when there is one, is preferred to the environment
Resolve_DefaultFirst(f, raw) == IF f.Default # <<>> THEN f.Default ELSE raw

\* "Use default if empty": envVal after the fallback
Resolve(f, raw) == IF raw = <<>> THEN f.Default ELSE raw

\* the WARNING printed for a required variable that falls back to its default
Warns(f, raw) == raw = <<>> /\ f.Required = "true" /\ f.Default # <<>>

\* mutant: the requirement is checked on the environment alone
RequiredFails_BeforeDefault(f, raw) == raw = <<>> /\ f.Required = "true"

\* mutant: the comparison with the empty string is inverted
RequiredFails_NonEmpty(f, raw) == Resolve(f, raw) # <<>> /\ f.Required = "true"

\* "Check required"
RequiredFails(f, raw) == Resolve(f, raw) = <<>> /\ f.Required = "true"

\* mutant: the caller names the nested struct field in the error it returns
NestedError_Annotated(e, outer) == [e EXCEPT !.path = <<outer.Name>> \o @]

\* "if err := parse(field.Addr().Interface()); err != nil { return err }"
NestedError(e, outer) == e

Top == frames[Len(frames)]
CurFields == StructFields(Top.path)
InLoop == epc = "parse" /\ Top.i < Len(CurFields)
CurField == CurFields[Top.i + 1]
CurPath == Append(Top.path, Top.i + 1)

\* i++
Advance == frames' = [frames EXCEPT ![Len(frames)].i = @ + 1]

\* a field with an env tag: the lookup and the warning
Lookup ==
    /\ lookups' = Append(lookups, CurField.Env)
    /\ warnings' =
          IF Warns(CurField, Getenv(CurField.Env))
          THEN Append(warnings, [key |-> CurField.Env, default |-> CurField.Default])
          ELSE warnings

Tagged == InLoop /\ CurField.Kind # "struct" /\ CurField.Env # ""

cliIdle == UNCHANGED cliVars

LoadEnvFile ==
    /\ epc = "load"
    /\ epc' = "check"
    /\ UNCHANGED <<schema, env, frames, target, err, warnings, lookups, failedAt>>
    /\ cliIdle

\* godotenv.Load fails on a malformed .env file
LoadEnvFileError ==
    /\ epc = "load"
    /\ epc' = "done"
    /\ err' = ErrEnvFile
    /\ UNCHANGED <<schema, env, frames, target, warnings, lookups, failedAt>>
    /\ cliIdle

ParseBadTarget ==
    /\ epc = "check"
    /\ ~schema.PtrToStruct
    /\ epc' = "done"
    /\ err' = ErrNotStructPtr
    /\ UNCHANGED <<schema, env, frames, target, warnings, lookups, failedAt>>
    /\ cliIdle

ParseBegin ==
    /\ epc = "check"
    /\ schema.PtrToStruct
    /\ epc' = "parse"
    /\ frames' = <<[path |-> <<>>, i |-> 0]>>
    /\ UNCHANGED <<schema, env, target, err, warnings, lookups, failedAt>>
    /\ cliIdle

\* "Handle nested structs (recursive)": the call
ParseNested ==
    /\ InLoop
    /\ CurField.Kind = "struct"
    /\ frames' = Append(frames, [path |-> CurPath, i |-> 0])
    /\ UNCHANGED <<schema, env, epc, target, err, warnings, lookups, failedAt>>
    /\ cliIdle

\* "Skip fields without env tag"
ParseSkip ==
    /\ InLoop
    /\ CurField.Kind # "struct"
    /\ CurField.Env = ""
    /\ Advance
    /\ UNCHANGED <<schema, env, epc, target, err, warnings, lookups, failedAt>>
    /\ cliIdle

\* "Check required": the error
ParseRequired ==
    /\ Tagged
    /\ RequiredFails(CurField, Getenv(CurField.Env))
    /\ Lookup
    /\ err' = ErrRequired(CurField.Env)
    /\ failedAt' = CurPath
    /\ epc' = "return"
    /\ UNCHANGED <<schema, env, frames, target>>
    /\ cliIdle

\* nothing to set: the field keeps its value
ParseEmpty ==
    /\ Tagged
    /\ ~RequiredFails(CurField, Getenv(CurField.Env))
    /\ Resolve(CurField, Getenv(CurField.Env)) = <<>>
    /\ Lookup
    /\ Advance
    /\ UNCHANGED <<schema, env, epc, target, err, failedAt>>
    /\ cliIdle

\* "Set value based on type": setField returns nil
ParseSetField ==
    /\ Tagged
    /\ ~RequiredFails(CurField, Getenv(CurField.Env))
    /\ Resolve(CurField, Getenv(CurField.Env)) # <<>>
    /\ LET r == setField(CurField, Resolve(CurField, Getenv(CurField.Env)))
       IN  /\ r.ok
           /\ target' = [target EXCEPT ![CurPath] = r.val]
    /\ Lookup
    /\ Advance
    /\ UNCHANGED <<schema, env, epc, err, failedAt>>
    /\ cliIdle

\* mutant: the error is recorded and the loop goes on to the next field
ParseSetFieldError_Continue ==
    /\ Tagged
    /\ ~RequiredFails(CurField, Getenv(CurField.Env))
    /\ Resolve(CurField, Getenv(CurField.Env)) # <<>>
    /\ LET r == setField(CurField, Resolve(CurField, Getenv(CurField.Env)))
       IN  /\ ~r.ok
           /\ err' = r.err
    /\ Lookup
    /\ failedAt' = CurPath
    /\ Advance
    /\ UNCHANGED <<schema, env, epc, target>>
    /\ cliIdle

\* "Set value based on type": setField returns an error
ParseSetFieldError ==
    /\ Tagged
    /\ ~RequiredFails(CurField, Getenv(CurField.Env))
    /\ Resolve(CurField, Getenv(CurField.Env)) # <<>>
    /\ LET r == setField(CurField, Resolve(CurField, Getenv(CurField.Env)))
       IN  /\ ~r.ok
           /\ err' = r.err
    /\ Lookup
    /\ failedAt' = CurPath
    /\ epc' = "return"
    /\ UNCHANGED <<schema, env, frames, target>>
    /\ cliIdle

\* a nested parse returns nil: "continue"
ParseNestedDone ==
    /\ epc = "parse"
    /\ Top.i = Len(CurFields)
    /\ Len(frames) > 1
    /\ frames' = [SubSeq(frames, 1, Len(frames) - 1) EXCEPT ![Len(frames) - 1].i = @ + 1]
    /\ UNCHANGED <<schema, env, epc, target, err, warnings, lookups, failedAt>>
    /\ cliIdle

\* the outermost parse returns nil, and Load with it
ParseDone ==
    /\ epc = "parse"
    /\ Top.i = Len(CurFields)
    /\ Len(frames) = 1
    /\ frames' = <<>>
    /\ err' = NilErr
    /\ epc' = "done"
    /\ UNCHANGED <<schema, env, target, warnings, lookups, failedAt>>
    /\ cliIdle

\* a nested parse returned an error: the caller returns it
ParsePropagate ==
    /\ epc = "return"
    /\ Len(frames) > 1
    /\ err' = NestedError(err, FieldAt(schema.Fields, Top.path))
    /\ frames' = SubSeq(frames, 1, Len(frames) - 1)
    /\ UNCHANGED <<schema, env, epc, target, warnings, lookups, failedAt>>
    /\ cliIdle

\* the outermost parse returns the error, and Load with it
ParseError ==
    /\ epc = "return"
    /\ Len(frames) = 1
    /\ frames' = <<>>
    /\ epc' = "done"
    /\ UNCHANGED <<schema, env, target, err, warnings, lookups, failedAt>>
    /\ cliIdle

----------------------------------------------------------------------------
(* pkg/envy: specification *)

CliIdle ==
    /\ config = AppEmpty
    /\ args = <<>>
    /\ osArgs = <<>>
    /\ cpc = "idle"
    /\ active = <<>>
    /\ rest = <<>>
    /\ flags = <<>>
    /\ i = 0
    /\ cmdArgs = <<>>
    /\ cmdFlags = EmptyMap
    /\ classes = <<>>
    /\ invoked = <<>>
    /\ out = <<>>
    /\ result = NoResult

InitEnvy ==
    /\ schema \in Targets
    /\ env \in Envs
    /\ epc = "load"
    /\ frames = <<>>
    /\ target = [p \in LeafPaths(schema.Fields, <<>>) |->
                    Zero(FieldAt(schema.Fields, p).Kind)]
    /\ err = NilErr
    /\ warnings = <<>>
    /\ lookups = <<>>
    /\ failedAt = <<>>
    /\ CliIdle

NextEnvy ==
    \/ LoadEnvFile
    \/ LoadEnvFileError
    \/ ParseBadTarget
    \/ ParseBegin
    \/ ParseNested
    \/ ParseSkip
    \/ ParseRequired
    \/ ParseEmpty
    \/ ParseSetField
    \/ ParseSetFieldError
    \/ ParseNestedDone
    \/ ParseDone
    \/ ParsePropagate
    \/ ParseError

SpecEnvy == InitEnvy /\ [][NextEnvy]_vars

----------------------------------------------------------------------------
(* pkg/climd: properties *)

Range(f) == {f[x] : x \in DOMAIN f}

\* the names a flag list declares: every Name, and every Short that is set
DeclaredNames(fl) ==
    {fl[k].Name : k \in 1..Len(fl)}
        \cup {fl[k].Short : k \in {j \in 1..Len(fl) : fl[j].Short # <<>>}}

BeginsWithDash(tok) == Len(tok) > 0 /\ tok[1] = "-"

CliDone == cpc = "done"

\* C1: when parseArgs stands on a token --x or -x whose x is a declared long
\* or short name, the step stores x -> next token and skips both tokens if a
\* next token exists and does not begin with "-", and otherwise stores
\* x -> "" and skips one token; no positional argument is added, and x, the
\* name as typed, is the only key the step adds.  The documented examples:
\* [s, --ht, m] calls the handler with {ht: m} and no positional arguments,
\* [s, --ht] calls it with {ht: ""}.
C1_FlagClassification ==
    [][ /\ (cpc = "parse" /\ i < Len(rest)) =>
              \A x \in DeclaredNames(flags) :
                  (rest[i + 1] = DashDash \o x \/ rest[i + 1] = Dash \o x) =>
                      /\ cmdArgs' = cmdArgs
                      /\ DOMAIN cmdFlags' = DOMAIN cmdFlags \cup {x}
                      /\ \A y \in DOMAIN cmdFlags : y # x => cmdFlags'[y] = cmdFlags[y]
                      /\ IF i + 2 <= Len(rest) /\ ~BeginsWithDash(rest[i + 2])
                         THEN cmdFlags'[x] = rest[i + 2] /\ i' = i + 2
                         ELSE cmdFlags'[x] = <<>> /\ i' = i + 1
        /\ (cpc' = "done" /\ config = AppA /\ args' = <<T_s, T_ht, T_m>>) =>
              /\ Len(invoked') = 1
              /\ invoked'[1].handler = <<1>>
              /\ invoked'[1].flags = (<<"h", "t">> :> T_m)
              /\ invoked'[1].args = <<>>
        /\ (cpc' = "done" /\ config = AppA /\ args' = <<T_s, T_ht>>) =>
              /\ Len(invoked') = 1
              /\ invoked'[1].flags = (<<"h", "t">> :> <<>>)
              /\ invoked'[1].args = <<>>
      ]_vars

\* a flag typed in short form with a value, then in long form without one:
\* the map holds both spellings, each under the name that was typed
C1_Witness ==
    /\ CliDone
    /\ rest = <<T_h, T_m, T_ht>>
    /\ cmdFlags = (<<"h">> :> T_m) @@ (<<"h", "t">> :> <<>>)
    /\ cmdArgs = <<>>
    /\ Len(invoked) = 1

\* a required flag with no entry under its long name nor under its short name
RequiredAbsent(f, m) ==
    /\ f.Required
    /\ f.Name \notin DOMAIN m
    /\ f.Short = <<>> \/ f.Short \notin DOMAIN m

\* C2: once Run has returned from a command or subcommand, it returned the
\* missing-required-flag error, for a flag that is absent under both
\* spellings, and called no handler, if the flag list has such a flag; and
\* if every required flag has an entry under its long or its short name it
\* did not return that error.
C2_RequiredFlags ==
    (CliDone /\ active # <<>>) =>
        LET fl == ActiveEntry.Flags
            absent == {k \in 1..Len(fl) : RequiredAbsent(fl[k], cmdFlags)}
        IN  /\ absent # {} =>
                /\ invoked = <<>>
                /\ \E k \in absent : result = ErrRequiredFlag(fl[k].Name, fl[k].Short)
            /\ absent = {} => result.kind # "required flag not provided"

\* the required flag --ht/-h was given as -h only, and the handler ran
C2_Witness ==
    /\ CliDone
    /\ active = <<1>>
    /\ config = AppA
    /\ DOMAIN cmdFlags = {<<"h">>}
    /\ Len(invoked) = 1

\* the commands of the schema named as argv[0], and the subcommands of c
\* named as argv[1]
CommandsNamed(n) == {k \in 1..Len(config.Commands) : config.Commands[k].Name = n}
SubCommandsNamed(c, n) ==
    {k \in 1..Len(config.Commands[c].SubCommands) :
        config.Commands[c].SubCommands[k].Name = n}
Least(S) == CHOOSE k \in S : \A j \in S : k <= j

GlobalTokens == HelpTokens \cup VersionTokens

\* Run has returned after matching argv[0] to a command that declares
\* subcommands, with a second token present
SubRouted ==
    /\ CliDone
    /\ Len(args) > 1
    /\ args[1] \notin GlobalTokens
    /\ CommandsNamed(args[1]) # {}
    /\ Len(config.Commands[Least(CommandsNamed(args[1]))].SubCommands) > 0

\* C3: when the matched command declares subcommands and argv has a second
\* token, the command's own handler is not called.  If argv[1] names a
\* subcommand, the first one of that name in declaration order is selected,
\* argv[2:] is classified against its flag list, and the only call made is to
\* its handler, with the positional list and the flag map of that
\* classification (both empty for an argv of two tokens); the call is made
\* unless required-flag validation fails.  If argv[1] names no subcommand,
\* Run returns the unknown-subcommand error for argv[1] and calls nothing.
C3_SubcommandRouting ==
    SubRouted =>
        LET ci == Least(CommandsNamed(args[1]))
            named == SubCommandsNamed(ci, args[2])
        IN  /\ \A k \in 1..Len(invoked) : invoked[k].handler # <<ci>>
            /\ named # {} =>
                  LET si == Least(named)
                      sub == config.Commands[ci].SubCommands[si]
                  IN  /\ active = <<ci, si>>
                      /\ rest = SliceFrom(args, 2)
                      /\ flags = sub.Flags
                      /\ i = Len(rest)
                      /\ Len(invoked) <= 1
                      /\ \A k \in 1..Len(invoked) :
                            /\ invoked[k].handler = <<ci, si>>
                            /\ invoked[k].args = cmdArgs
                            /\ invoked[k].flags = cmdFlags
                            /\ Len(args) = 2 =>
                                  invoked[k].args = <<>> /\ invoked[k].flags = EmptyMap
                      /\ invoked = <<>> =>
                            result.kind \in {"required flag not provided", "panic"}
                      /\ result.kind = "panic" => ~sub.Run
            /\ named = {} =>
                  /\ result = ErrUnknownSubCommand(args[2])
                  /\ invoked = <<>>

\* [d, m, --ht, m] against AppA: two subcommands are named m, and the first,
\* which declares no flag, is the one called: --ht stays a positional argument
C3_Witness ==
    /\ CliDone
    /\ config = AppA
    /\ args = <<T_d, T_m, T_ht, T_m>>
    /\ Len(invoked) = 1
    /\ invoked[1].handler = <<2, 1>>
    /\ invoked[1].args = <<T_ht, T_m>>
    /\ invoked[1].flags = EmptyMap

\* Run has returned for an argv whose first token is no global flag and names
\* no command of the schema
UnknownCommandCase ==
    /\ CliDone
    /\ Len(args) > 0
    /\ args[1] \notin GlobalTokens
    /\ CommandsNamed(args[1]) = {}

\* C4 as stated: for every schema with no command named X, Run with argv
\* [X, ...] returns the unknown-command error naming X and calls no handler.
C4_UnknownCommand_Original ==
    UnknownCommandCase =>
        result = ErrUnknownCommand(args[1]) /\ invoked = <<>>

\* C4 amended: the same for every schema that declares at least one command;
\* a schema with no command at all prints the help and returns nil.
C4_UnknownCommand ==
    /\ (UnknownCommandCase /\ Len(config.Commands) > 0) =>
          result = ErrUnknownCommand(args[1]) /\ invoked = <<>>
    /\ (UnknownCommandCase /\ Len(config.Commands) = 0) =>
          result = Nil /\ invoked = <<>> /\ out = <<"help">>

C4_Witness ==
    /\ CliDone
    /\ config = AppA
    /\ args = <<T_m, T_ht>>
    /\ result = ErrUnknownCommand(T_m)

\* the tokens of the form --name=value for a declared flag name
EqualsForm(f, tok) ==
    LET p == DashDash \o f.Name \o <<"=">>
    IN  HasPrefix(tok, p)
EqualsValue(f, tok) == SliceFrom(tok, Len(f.Name) + 3)

\* C5 (README, "Example Usage"): a token --name=value for a declared flag
\* name reaches the handler as flags[name] = value and is not passed as a
\* positional argument.
C5_EqualsForm ==
    (CliDone /\ Len(invoked) = 1) =>
        \A k \in 1..Len(rest) : \A j \in 1..Len(ActiveEntry.Flags) :
            LET f == ActiveEntry.Flags[j]
            IN  EqualsForm(f, rest[k]) =>
                    /\ f.Name \in DOMAIN invoked[1].flags
                    /\ invoked[1].flags[f.Name] = EqualsValue(f, rest[k])
                    /\ rest[k] \notin Range(invoked[1].args)

\* Run has returned for an argv that is only the name of a command declaring
\* subcommands
FallbackCase ==
    /\ CliDone
    /\ Len(args) = 1
    /\ args[1] \notin GlobalTokens
    /\ CommandsNamed(args[1]) # {}
    /\ Len(config.Commands[Least(CommandsNamed(args[1]))].SubCommands) > 0

\* C11: for every command that declares subcommands, Run with an argv that is
\* only the command's name calls the command's own handler, with an empty
\* positional list and an empty flag map, and returns what the handler
\* returned; it does not fail.
C11_SubcommandFallback ==
    FallbackCase =>
        /\ Len(invoked) = 1
        /\ invoked[1].handler = <<Least(CommandsNamed(args[1]))>>
        /\ invoked[1].args = <<>>
        /\ invoked[1].flags = EmptyMap
        /\ result.kind = invoked[1].ret

\* C12: in every call of Run at most one handler is called, at most once, and
\* it is the handler Run selected, called with the classification of the
\* remaining tokens; when Run returns an unknown-command, unknown-subcommand
\* or missing-required-flag error, or has printed the help or the version,
\* no handler was called; when a handler was called Run has returned, and
\* returned exactly what the handler returned.
C12_HandlerInvocation ==
    /\ Len(invoked) <= 1
    /\ result.kind \in {"unknown command", "unknown subcommand",
                        "required flag not provided"} => invoked = <<>>
    /\ ("help" \in Range(out) \/ "version" \in Range(out)) => invoked = <<>>
    /\ Len(invoked) = 1 =>
          /\ CliDone
          /\ invoked[1].handler = active
          /\ invoked[1].args = cmdArgs
          /\ invoked[1].flags = cmdFlags
          /\ result.kind = invoked[1].ret
          /\ result.name = <<>>

\* a handler was called and failed, and Run returned its error
C12_Witness ==
    /\ CliDone
    /\ Len(invoked) = 1
    /\ invoked[1].ret = "handler error"
    /\ result.kind = "handler error"
    /\ out = <<>>

\* parseArgs has been called
Scanning == cpc \in {"parse", "done"} /\ active # <<>>

\* the name parseArgs cuts from a flag-shaped token
Stripped(tok) == IF HasPrefix(tok, DashDash) THEN SliceFrom(tok, 2) ELSE SliceFrom(tok, 1)

\* the positions scanned so far that were classified as c, and the n-th of a
\* set of positions
PositionsOf(c) == {k \in 1..Len(classes) : classes[k] = c}
Nth(P, n) == CHOOSE k \in P : Cardinality({j \in P : j <= k}) = n

\* C14: the index of the scan never passes the length of the token list and
\* equals it when parseArgs returns; every token scanned has exactly one
\* class (flag name, flag value or positional argument); a flag value follows
\* a flag name and does not begin with a dash, a flag name is a flag-shaped
\* token; the positional list is exactly the tokens classified positional, in
\* their order, verbatim; and a flag-shaped token whose name is not
\* recognized is among them unless it was taken as a value.
C14_TokenConservation ==
    Scanning =>
        /\ i <= Len(rest)
        /\ Len(classes) = i
        /\ CliDone => i = Len(rest)
        /\ \A k \in 1..i : classes[k] \in {"flag name", "flag value", "positional"}
        /\ \A k \in PositionsOf("flag value") :
              k > 1 /\ classes[k - 1] = "flag name" /\ ~BeginsWithDash(rest[k])
        /\ \A k \in PositionsOf("flag name") :
              BeginsWithDash(rest[k]) /\ Stripped(rest[k]) \in DOMAIN cmdFlags
        /\ Len(cmdArgs) = Cardinality(PositionsOf("positional"))
        /\ \A n \in 1..Len(cmdArgs) : cmdArgs[n] = rest[Nth(PositionsOf("positional"), n)]
        /\ \A k \in 1..i :
              (BeginsWithDash(rest[k]) /\ ~isKnownFlag(flags, Stripped(rest[k]))) =>
                  classes[k] = "positional"

\* [s, --ht, m, -v] against AppA: a name, its value, and the undeclared -v
\* passed on with its dash
C14_Witness ==
    /\ CliDone
    /\ config = AppA
    /\ rest = <<T_ht, T_m, T_v>>
    /\ i = 3
    /\ classes = <<"flag name", "flag value", "positional">>
    /\ cmdArgs = <<T_v>>
    /\ Len(invoked) = 1

\* C15: every key of the flag map is a non-empty string that is the Name or
\* the non-empty Short of a flag of the active flag list; and a step that adds
\* an entry to the map, or skips two tokens, stands on a token whose stripped
\* name is such a declared name.
C15_DeclaredKeys ==
    [][ (cpc = "parse" /\ i < Len(rest)) =>
            /\ \A x \in DOMAIN cmdFlags' : x # <<>> /\ x \in DeclaredNames(flags)
            /\ (cmdFlags' # cmdFlags \/ i' = i + 2) =>
                  /\ Stripped(rest[i + 1]) # <<>>
                  /\ Stripped(rest[i + 1]) \in DeclaredNames(flags)
      ]_vars

----------------------------------------------------------------------------
(* pkg/envy: properties *)

EnvyDone == epc = "done"

\* the source gives nothing for the key: no entry, or an empty one
NoSource(key) == key \notin DOMAIN env \/ env[key] = <<>>

Leaves == LeafPaths(schema.Fields, <<>>)
Leaf(p) == FieldAt(schema.Fields, p)

\* a field with a source key, required = true and no default
RequiredNoDefault(f) ==
    f.Kind # "struct" /\ f.Env # "" /\ f.Required = "true" /\ f.Default = <<>>

\* C6: when parse reaches a field with a source key, required = true and no
\* default whose key has no entry or an empty entry, it returns the
\* missing-required error for that key and writes nothing; the error is
\* what Load returns; and no bind of a schema with such a field succeeds.
C6_MissingRequired ==
    [][ /\ (InLoop /\ RequiredNoDefault(CurField) /\ NoSource(CurField.Env)) =>
              /\ err' = ErrRequired(CurField.Env)
              /\ epc' = "return"
              /\ target' = target
        /\ (epc = "return" /\ err = ErrRequired(err.key)) =>
              /\ err' = err
              /\ epc' \in {"return", "done"}
        /\ (epc' = "done" /\ err' = NilErr /\ schema.PtrToStruct) =>
              \A p \in Leaves : ~(RequiredNoDefault(Leaf(p)) /\ NoSource(Leaf(p).Env))
      ]_vars

\* the test's case: the first field is bound, the required one has no entry
C6_Witness ==
    /\ EnvyDone
    /\ schema = ScalarTarget("int")
    /\ "K2" \notin DOMAIN env
    /\ target[<<1>>] = 12
    /\ failedAt = <<2>>
    /\ err = ErrRequired("K2")

\* C7: after a successful bind every field with a source key equals the
\* coercion of the source entry's value if the source has a non-empty entry
\* for the key, whatever the default; the coercion of the default literal is
\* there only if the source gives nothing, and the zero value if there is no
\* default either.
C7_SourceOverridesDefault ==
    (EnvyDone /\ err = NilErr /\ schema.PtrToStruct) =>
        \A p \in Leaves :
            LET f == Leaf(p)
            IN  IF f.Env = "" THEN target[p] = Zero(f.Kind)
                ELSE IF ~NoSource(f.Env)
                     THEN setField(f, env[f.Env]).ok
                            /\ target[p] = setField(f, env[f.Env]).val
                ELSE IF f.Default # <<>>
                     THEN setField(f, f.Default).ok
                            /\ target[p] = setField(f, f.Default).val
                ELSE target[p] = Zero(f.Kind)

\* every kind bound from the source "1", each differing from its default
C7_Witness ==
    /\ EnvyDone
    /\ err = NilErr
    /\ schema = AllKindsTarget
    /\ Getenv("K1") = <<"1">>
    /\ target[<<1>>] = <<"1">>
    /\ target[<<2>>] = 1
    /\ target[<<3>>] = 1
    /\ target[<<4>>] = TRUE
    /\ target[<<5>>] = Decimal(FALSE, 1, 0)
    /\ target[<<6>>] = Slice(<<1>>)
    /\ \A p \in Leaves : target[p] # setField(Leaf(p), Leaf(p).Default).val

\* the parts of s between consecutive commas, in order
CommaCuts(s) == {0, Len(s) + 1} \cup {k \in 1..Len(s) : s[k] = ","}
NthCut(s, n) == CHOOSE c \in CommaCuts(s) : Cardinality({d \in CommaCuts(s) : d < c}) = n - 1
CommaParts(s) ==
    [n \in 1..(Cardinality(CommaCuts(s)) - 1) |->
        SubSeq(s, NthCut(s, n) + 1, NthCut(s, n + 1) - 1)]

\* p without its leading and trailing white space
Trimmed(p) ==
    LET inner == {k \in 1..Len(p) : ~IsSpace(p[k])}
    IN  IF inner = {} THEN <<>>
        ELSE SubSeq(p, CHOOSE a \in inner : \A b \in inner : a <= b,
                       CHOOSE a \in inner : \A b \in inner : a >= b)

\* split on ",", trim, drop the empty parts
KeptParts(s) ==
    LET parts == CommaParts(s)
    IN  SelectSeq([n \in 1..Len(parts) |-> Trimmed(parts[n])], LAMBDA q : q # <<>>)

\* C8: when parse binds a sequence field of element kind string, signed int
\* or float from a non-empty resolved string s, the field becomes the list of
\* the coerced parts of s (split on ",", trimmed, empty parts dropped) in
\* split order if every part coerces; otherwise the bind fails with a
\* type-mismatch error and the field is not written.  "a, b ,c" gives
\* [a, b, c], "1,2,4" gives [1, 2, 4], "1,x,4" fails.
C8_SequenceBinding ==
    [][ /\ ( /\ Tagged
             /\ CurField.Kind = "slice"
             /\ CurField.Elem \in {"string"} \cup SignedKinds \cup FloatKinds
             /\ Resolve(CurField, Getenv(CurField.Env)) # <<>> ) =>
              LET kept == KeptParts(Resolve(CurField, Getenv(CurField.Env)))
                  elem(k) == SliceElem(CurField.Elem, kept[k], CurField.Name)
              IN  IF \A k \in 1..Len(kept) : elem(k).ok
                  THEN /\ target' = [target EXCEPT ![CurPath] =
                                        Slice([k \in 1..Len(kept) |-> elem(k).val])]
                       /\ err' = NilErr
                       /\ epc' = "parse"
                  ELSE /\ err'.kind \in {"invalid int in slice", "invalid float in slice"}
                       /\ target' = target
                       /\ epc' = "return"
        /\ (epc' = "done" /\ err' # ErrEnvFile /\ schema = SliceTarget("string")
                /\ Getenv("K1") = <<"a", ",", " ", "b", " ", ",", "c">>) =>
              err' = NilErr /\ target'[<<1>>] = Slice(<<(<<"a">>), (<<"b">>), (<<"c">>)>>)
        /\ (epc' = "done" /\ err' # ErrEnvFile /\ schema = SliceTarget("int")
                /\ Getenv("K1") = <<"1", ",", "2", ",", "4">>) =>
              err' = NilErr /\ target'[<<1>>] = Slice(<<1, 2, 4>>)
        /\ (epc' = "done" /\ err' # ErrEnvFile /\ schema = SliceTarget("int")
                /\ Getenv("K1") = <<"1", ",", "x", ",", "4">>) =>
              err'.kind = "invalid int in slice" /\ target'[<<1>>] = NilSlice
      ]_vars

C8_Witness ==
    /\ EnvyDone
    /\ schema = SliceTarget("string")
    /\ Getenv("K1") = <<"a", ",", " ", "b", " ", ",", "c">>
    /\ target[<<1>>] = Slice(<<(<<"a">>), (<<"b">>), (<<"c">>)>>)

\* C9: when parse reaches a field that is required = true with a non-empty
\* default and the source gives nothing for its key, it prints the warning
\* and does not return the missing-required error: the field is bound to
\* the coerced default (and if the default literal does not coerce, the
\* error is the type mismatch).  MustExist of the example program, unset,
\* is bound to 999.
C9_RequiredWithDefault ==
    [][ /\ ( /\ Tagged
             /\ CurField.Required = "true"
             /\ CurField.Default # <<>>
             /\ NoSource(CurField.Env) ) =>
              /\ warnings' = Append(warnings, [key |-> CurField.Env,
                                               default |-> CurField.Default])
              /\ err'.kind # "required"
              /\ LET r == setField(CurField, CurField.Default)
                 IN  IF r.ok
                     THEN /\ target' = [target EXCEPT ![CurPath] = r.val]
                          /\ err' = NilErr
                          /\ epc' = "parse"
                     ELSE /\ err' = r.err
                          /\ err'.kind \in TypeMismatchKinds
                          /\ epc' = "return"
        /\ (epc' = "done" /\ err' # ErrEnvFile /\ schema = RequiredDefaultTarget
                /\ NoSource("K1") /\ Getenv("K2") = <<"1">>) =>
              /\ err' = NilErr
              /\ target'[<<1>>] = 999
              /\ warnings' = <<[key |-> "K1", default |-> <<"9", "9", "9">>]>>
      ]_vars

C9_Witness ==
    /\ EnvyDone
    /\ schema = RequiredDefaultTarget
    /\ "K1" \notin DOMAIN env
    /\ err = NilErr
    /\ target[<<1>>] = 999
    /\ Len(warnings) = 1

\* the names of the struct fields that enclose the field at path p,
\* outermost first
Enclosing(p) == [k \in 1..(Len(p) - 1) |-> FieldAt(schema.Fields, SubSeq(p, 1, k)).Name]

\* C10 as stated: the error the outer bind returns for a failure inside a
\* nested record carries the names of the enclosing nested-record fields.
C10_NestedAnnotated_Original ==
    (EnvyDone /\ Len(failedAt) > 1) =>
        \A k \in 1..(Len(failedAt) - 1) : Enclosing(failedAt)[k] \in Range(err.path)

\* C10 amended: every caller returns the nested error unchanged, so the error
\* Load returns names only the failing field's own name (a coercion error)
\* or its source key (missing-required), never an enclosing record; the same
\* failure in App.Port and in Database.Port gives one and the same error.
C10_NestedUnchanged ==
    [][ /\ epc = "return" => err' = err
        /\ (epc' = "done" /\ failedAt' # <<>>) =>
              LET f == FieldAt(schema.Fields, failedAt')
              IN  IF err'.kind = "required"
                  THEN err' = ErrRequired(f.Env)
                  ELSE err'.path = <<f.Name>> /\ err'.key = ""
        /\ (epc' = "done" /\ err' # ErrEnvFile /\ schema = NestedTarget /\ err'.num = <<"t">>) =>
              /\ failedAt' \in {<<1, 1>>, <<2, 1>>}
              /\ err' = ErrInvalid("invalid int", "Port", <<"t">>, "invalid syntax")
      ]_vars

\* Database.Port fails with the error App.Port would give
C10_Witness ==
    /\ EnvyDone
    /\ schema = NestedTarget
    /\ failedAt = <<2, 1>>
    /\ err = ErrInvalid("invalid int", "Port", <<"t">>, "invalid syntax")
    /\ target[<<1, 1>>] = 1

\* declaration order, depth first, on the paths of non-struct fields
Before(p, q) ==
    \E k \in 1..Len(p) :
        /\ k <= Len(q)
        /\ p[k] < q[k]
        /\ \A j \in 1..(k - 1) : p[j] = q[j]

\* the string a field with a source key is bound from
Resolved(f) == IF NoSource(f.Env) THEN f.Default ELSE env[f.Env]

\* the error binding the field alone gives, NilErr if it gives none
ErrorOf(f) ==
    IF f.Env = "" THEN NilErr
    ELSE IF Resolved(f) = <<>>
         THEN IF f.Required = "true" THEN ErrRequired(f.Env) ELSE NilErr
    ELSE setField(f, Resolved(f)).err

Failing == {p \in Leaves : ErrorOf(Leaf(p)) # NilErr}

\* the fields with a source key visited up to and including p
TaggedUpTo(p) == {q \in Leaves : Leaf(q).Env # "" /\ (q = p \/ Before(q, p))}

\* parse has run on a pointer to a struct and Load has returned
Parsed13 == EnvyDone /\ schema.PtrToStruct /\ err # ErrEnvFile

\* C13: when Load returns and some field fails on its own, the error is that
\* of the first such field in depth-first declaration order (a nested
\* record's fields before the siblings that follow it) and is not nil; the
\* keys looked up are those of the fields up to that one, in that order, and
\* no other; every field after it still has its zero value; and every field
\* before it holds the value it was bound to.  When no field fails, Load
\* returns nil.
C13_FirstError ==
    Parsed13 =>
        /\ Failing = {} => err = NilErr /\ failedAt = <<>>
        /\ Failing # {} =>
              LET first == CHOOSE p \in Failing : \A q \in Failing : q = p \/ Before(p, q)
                  seen == TaggedUpTo(first)
              IN  /\ failedAt = first
                  /\ err = ErrorOf(Leaf(first))
                  /\ err # NilErr
                  /\ Len(lookups) = Cardinality(seen)
                  /\ \A q \in seen :
                        lookups[Cardinality(TaggedUpTo(q))] = Leaf(q).Env
                  /\ \A q \in Leaves :
                        (q = first \/ Before(first, q)) => target[q] = Zero(Leaf(q).Kind)
                  /\ \A q \in Leaves :
                        Before(q, first) =>
                            IF Leaf(q).Env # "" /\ Resolved(Leaf(q)) # <<>>
                            THEN target[q] = setField(Leaf(q), Resolved(Leaf(q))).val
                            ELSE target[q] = Zero(Leaf(q).Kind)

\* K1 = "t" on the target with a field of every kind: S is bound, I fails
\* first, and U, F and L, which would fail too, and B, which would not, are
\* neither looked up nor written
C13_Witness ==
    /\ EnvyDone
    /\ schema = AllKindsTarget
    /\ Getenv("K1") = <<"t">>
    /\ Cardinality(Failing) = 4
    /\ failedAt = <<2>>
    /\ err = ErrInvalid("invalid int", "I", <<"t">>, "invalid syntax")
    /\ lookups = <<"K1", "K1">>
    /\ target[<<1>>] = <<"t">>
    /\ target[<<4>>] = FALSE
    /\ target[<<6>>] = NilSlice

\* the integers a field of an integer kind can hold; the integers denoted by
\* the strings explored all lie within 64 bits
Fits(kind, v) ==
    IF Bits(kind) = 64 THEN kind \in SignedKinds \/ 0 <= v
    ELSE IF kind \in SignedKinds
         THEN -(2 ^ (Bits(kind) - 1)) <= v /\ v < 2 ^ (Bits(kind) - 1)
         ELSE 0 <= v /\ v < 2 ^ Bits(kind)

\* no field before p fails
FirstToFail(p) == \A q \in Leaves : Before(q, p) => ErrorOf(Leaf(q)) = NilErr

\* C16: after a successful bind every signed or unsigned integer field with a
\* non-empty resolved string equals the integer that string denotes in base
\* 10, and every signed integer sequence field holds the integers its kept
\* parts denote; and a field, or a sequence element, whose string denotes an
\* integer that does not fit the declared width makes the bind fail at that
\* field with a type-mismatch error.
C16_ExactIntegers ==
    Parsed13 =>
        \A p \in Leaves :
            LET f == Leaf(p)
                str == Resolved(f)
                parts == KeptParts(str)
            IN  (f.Env # "" /\ str # <<>>) =>
                  /\ (f.Kind \in SignedKinds \cup UnsignedKinds /\ err = NilErr) =>
                        ParseInt(str).ok /\ target[p] = ParseInt(str).val
                  /\ (f.Kind = "slice" /\ f.Elem \in SignedKinds /\ err = NilErr) =>
                        /\ \A k \in 1..Len(parts) : ParseInt(parts[k]).ok
                        /\ target[p] = Slice([k \in 1..Len(parts) |-> ParseInt(parts[k]).val])
                  /\ (/\ f.Kind \in SignedKinds \cup UnsignedKinds
                      /\ ParseInt(str).ok
                      /\ ~Fits(f.Kind, ParseInt(str).val)
                      /\ FirstToFail(p)) =>
                        failedAt = p /\ err.kind \in TypeMismatchKinds
                  /\ (/\ f.Kind = "slice" /\ f.Elem \in SignedKinds
                      /\ \A k \in 1..Len(parts) : ParseInt(parts[k]).ok
                      /\ \E k \in 1..Len(parts) : ~Fits(f.Elem, ParseInt(parts[k]).val)
                      /\ FirstToFail(p)) =>
                        failedAt = p /\ err.kind \in TypeMismatchKinds

====
